---- MODULE Spec2Model ----
(***************************************************************************)
(* A model of the Ebash shell core: the read/parse/execute loop (Run), the *)
(* conditional state machine over the stages of one line (runPipeline),    *)
(* the stage executor with its pipe and redirection descriptors (runPipe,  *)
(* closeDescriptors), the wait on the spawned processes (sync,             *)
(* external.Wait) and the descriptor audit (sysmon).                       *)
(*                                                                         *)
(* Abstractions.  A command is its name: "cd" stands for the builtins      *)
(* (which may fail), "prog" for the external programs (whose spawn may     *)
(* fail and which exit with some wait status).  A descriptor is an index   *)
(* into files, the table of the *os.File values created for the current    *)
(* line; descriptors left open by earlier lines are counted in leaked.     *)
(* The Go runtime's finalizers, which may close an unreachable *os.File at *)
(* some later garbage collection, are not modelled: every behaviour of the *)
(* model is the behaviour of the program when no collection intervenes.    *)
(***************************************************************************)
EXTENDS Integers, Sequences, FiniteSets, TLC

\* ------------------------------------------------------------- bounds
\* Lines read in one session.
MaxLines == 2
\* The size of one line: its commands plus its redirections, over all stages.
MaxLineSize == 3
\* Interrupts the process receives in one session.
MaxInterrupts == 1
\* The longest line the parser is given, in pieces: a piece is a character or
\* a two-character operator.
MaxTextLen == 4

\* ---------------------------------------------------------- constants
\* The zero value of *os.File (var writer, connector, reader *os.File).
Nil == 0

\* os.Stdin and os.Stdout, as descriptors that are no entry of files.
Stdin == -1

Stdout == -2

\* What a pipe made by os.Pipe buffers before a write to it blocks, in units
\* of builtin output.
PipeCapacity == 1

\* The sizes of what a builtin writes: nothing, what a pipe buffers, more.
OutputSizes == 0..(PipeCapacity + 1)

\* The values of check_interval in the configurations boot loads: 0 turns the
\* descriptor audit off, 1 has sysmon audit after every line.
CheckIntervals == {0, 1}

\* shell.builtins (boot) restricted to the names the model uses.
builtins == {"cd"}

CommandNames == {"cd", "prog"}

\* os.ProcessState as Wait sees it: exited with a status, or killed by a signal.
WaitStatuses ==
    [exited : {TRUE}, status : {0, 1}] \cup [exited : {FALSE}, status : {0}]

\* (*ProcessState).ExitCode: the exit status, or -1 for a process that was
\* terminated by a signal.
ExitCode(ps) == IF ps.exited THEN ps.status ELSE -1

\* (*ProcessState).Success, which decides whether (*Cmd).Wait returns an
\* *exec.ExitError.
Success(ps) == ps.exited /\ ps.status = 0

VARIABLES
    pc,            \* where the orchestrating thread is
    lineNo,        \* lines read so far
    checkInterval, \* shell.checkInterval (from the configuration)
    checkCounter,  \* shell.checkCounter
    leaked,        \* descriptors above the baseline left open by earlier lines
    pipeline,      \* shell.pipeline
    files,         \* the *os.File values created for the current line
    externals,     \* shell.externals
    stage,         \* runPipeline's i (1-based)
    lastExitCode,  \* runPipeline's lastExitCode
    cmd,           \* runPipe's i (1-based)
    writer,        \* runPipe's writer
    connector,     \* runPipe's connector
    reader,        \* runPipe's reader
    trace,         \* history: per stage of the line, whether runPipeline ran it,
                   \*   the exit code its test saw, and what runPipe returned
    waited,        \* history: the processes reaped by the sync of the stage that
                   \*   has just returned, in order, with their wait statuses
    lineErr,       \* history: what runPipeline returned for the current line
    mu,            \* shell.mu: who holds it
    sigCh,         \* shell.sigCh: the signals it buffers (capacity 1)
    relayPc,       \* where interruptHandler is
    interrupts,    \* interrupts the process has received so far
    signalled,     \* history: the processes interruptHandler has signalled
                   \*   since the current stage was entered, each with whether
                   \*   runPipe was in sync at the time
    arrived,       \* history: an interrupt was received while the current
                   \*   stage was in sync
    wiring,        \* history: the commands of the current line that were
                   \*   started, each with its standard input and output
    stopCh,        \* shell.stopCh: "open", or "closed" by exit
    running,       \* history: for the interrupt now in shell.sigCh
                   \*   (buffered) and the one interruptHandler has taken
                   \*   (held), the processes that were in shell.externals
                   \*   when it arrived (procs) and whether Run was then
                   \*   reading a line (reading)
    accesses,      \* history: the reads and writes of shell.externals, each
                   \*   with the thread that made it and the holder of
                   \*   shell.mu at that moment
    text,          \* the line Run hands to parser.Parse, as characters
    textNo,        \* the lines of text read so far
    parsedText,    \* what Parse returned for text, and the files it opened
    disk,          \* the file system: the content of each file that exists
    before,        \* history: the file system when text was read
    phase          \* where Run is with text

\* What interruptHandler and the delivery of interrupts read and write.
relayVars == <<mu, sigCh, relayPc, interrupts, signalled, arrived>>

\* What the parser, taken on the text of a line, reads and writes.
parseVars == <<text, textNo, parsedText, disk, before, phase>>

\* What the executor reads and writes.
shellVars == <<pc, lineNo, checkInterval, checkCounter, leaked, pipeline,
               files, externals, stage, lastExitCode, cmd, writer, connector,
               reader, trace, waited, lineErr, wiring>>

vars == <<pc, lineNo, checkInterval, checkCounter, leaked, pipeline, files,
          externals, stage, lastExitCode, cmd, writer, connector, reader,
          trace, waited, lineErr, mu, sigCh, relayPc, interrupts, signalled,
          arrived, wiring, stopCh, running, accesses, text, textNo, parsedText, disk, before,
          phase>>

\* ------------------------------------------------------------ helpers
Range(s) == {s[x] : x \in 1..Len(s)}

SeqsUpTo(S, n) == UNION {[1..m -> S] : m \in 1..n}

\* The file system: a function from the names of the files that exist to
\* their contents, each content a sequence of the things written.
NoFiles == [name \in {} |-> <<>>]

\* Parse has not been called on a text.
NoText ==
    /\ text = <<>>
    /\ textNo = 0
    /\ parsedText = [pipeline |-> <<>>, err |-> FALSE, opened |-> <<>>]
    /\ disk = NoFiles
    /\ before = NoFiles
    /\ phase = "off"

\* The descriptors of the current line that are open.
OpenFiles == {f \in 1..Len(files) : files[f].open}

\* What /proc/<pid>/fd holds above the baseline recorded by boot.
OpenAboveBaseline == leaked + Cardinality(OpenFiles)

\* (*os.File).Close on descriptor f: the first call closes it, a later one
\* finds it closed already (and is counted in closes all the same).
Close(fs, f) ==
    [fs EXCEPT ![f] = [@ EXCEPT !.open = FALSE, !.closes = @ + 1]]

\* closeDescriptors leaving its loop after the first descriptor.
closeDescriptorsFirstOnly(fs, descriptors) ==
    IF descriptors # <<>> /\ Head(descriptors) # Nil
    THEN Close(fs, Head(descriptors))
    ELSE fs

\* closeDescriptors: Close on every non-nil descriptor, in argument order.
\* The descriptors the model passes are files made by Parse or os.Pipe, never
\* os.Stdin or os.Stdout, so that part of the test is always true.
RECURSIVE closeDescriptors(_, _)
closeDescriptors(fs, descriptors) ==
    IF descriptors = <<>> THEN fs
    ELSE closeDescriptors(
             IF Head(descriptors) # Nil THEN Close(fs, Head(descriptors)) ELSE fs,
             Tail(descriptors))

\* external.Wait: the last non-nil error of the Wait calls, in list order.  An
\* error is the one-element sequence holding the wait status behind the
\* *exec.ExitError; <<>> is nil.
RECURSIVE Wait(_)
Wait(statuses) ==
    IF statuses = <<>> THEN <<>>
    ELSE LET rest == Wait(Tail(statuses))
         IN  IF rest # <<>> THEN rest
             ELSE IF Success(Head(statuses)) THEN <<>> ELSE <<Head(statuses)>>

\* ---------------------------------------------------------------- Parse
\* A line as splitByConditionals and buildSection cut it: per segment the
\* command names, whether it holds a "<" and a ">"/">>" redirection, and the
\* operator that follows it ("" when none does).
Redirs(seg) == (IF seg.hasIn THEN 1 ELSE 0) + (IF seg.hasOut THEN 1 ELSE 0)

\* The size of a segment: its commands and its redirections.
Size(seg) == Len(seg.Section) + Redirs(seg)

\* The segments of size n at most.
Segments(n) ==
    {seg \in [Section : SeqsUpTo(CommandNames, n), hasIn : BOOLEAN,
              hasOut : BOOLEAN, next : {"", "&&", "||"}] : Size(seg) <= n}

\* The lines of size n at most.  An operator follows every segment but the
\* last: Parse builds a further Pipe only after an operator.
RECURSIVE LinesWithin(_)
LinesWithin(n) ==
    {<<seg>> : seg \in {l \in Segments(n) : l.next = ""}}
    \cup UNION {{<<seg>> \o rest : rest \in LinesWithin(n - Size(seg))} :
                seg \in {l \in Segments(n - 1) : l.next # ""}}

Lines == LinesWithin(MaxLineSize)

\* A descriptor just opened; content counts what the builtins have written
\* through it.
NewFile(kind, st) ==
    [kind |-> kind, stage |-> st, open |-> TRUE, closes |-> 0, content |-> 0]

\* Parse's loop over the segments: buildSection opens the input file, then the
\* output file (redirect), and the Pipe is appended with NextAnd / NextOr set
\* from the operator that follows the segment.
RECURSIVE ParseFrom(_, _, _)
ParseFrom(segments, pl, fs) ==
    IF segments = <<>> THEN [pipeline |-> pl, files |-> fs]
    ELSE LET seg    == Head(segments)
             st     == Len(pl) + 1
             fsIn   == IF seg.hasIn THEN Append(fs, NewFile("input", st)) ELSE fs
             input  == IF seg.hasIn THEN Len(fsIn) ELSE Nil
             fsOut  == IF seg.hasOut THEN Append(fsIn, NewFile("output", st)) ELSE fsIn
             output == IF seg.hasOut THEN Len(fsOut) ELSE Nil
             pipe   == [Section |-> seg.Section, Input |-> input, Output |-> output,
                        NextAnd |-> (seg.next = "&&"), NextOr |-> (seg.next = "||")]
         IN  ParseFrom(Tail(segments), Append(pl, pipe), fsOut)

Parse(line) == ParseFrom(line, <<>>, <<>>)

\* A process of shell.externals: the command that spawned it.  Earlier stands
\* for the processes spawned by the lines that are over.
Process(ln, st, c) == [line |-> ln, stage |-> st, cmd |-> c]

Earlier == Process(0, 0, 0)

\* The moment an interrupt arrives.
Arrival(procs, reading) == [procs |-> procs, reading |-> reading]

\* No interrupt is buffered or being handled.
NoneRunning == [buffered |-> Arrival({}, FALSE), held |-> Arrival({}, FALSE)]

\* The history once shell.externals has become ext: a process that has left
\* the list can no longer be sent anything, a stale one is known as Earlier.
StillRunning(r, ext) ==
    LET Kept(ps) == IF ps \subseteq Range(ext) THEN ps
                    ELSE (ps \cap Range(ext)) \cup (Range(ext) \cap {Earlier})
    IN  [buffered |-> Arrival(Kept(r.buffered.procs), r.buffered.reading),
         held |-> Arrival(Kept(r.held.procs), r.held.reading)]

\* exit called where Run returns instead of deferred: a panic skips it.
exitOnReturn(next) == IF next = "done" THEN "closed" ELSE stopCh

\* shell.stopCh once the orchestrating thread is at next: Run has deferred
\* exit, which closes it when Run returns and when it panics.
exit(next) == IF next \in {"done", "panic"} THEN "closed" ELSE stopCh

\* An access to shell.externals.
Access(by, op, holder) == [by |-> by, op |-> op, holder |-> holder]

\* ------------------------------------------------------------------ Run
Init ==
    /\ pc = "read"
    /\ stopCh = "open"
    /\ running = NoneRunning
    /\ accesses = {}
    /\ NoText
    /\ lineNo = 0
    /\ checkInterval \in CheckIntervals
    /\ checkCounter = 0
    /\ leaked = 0
    /\ pipeline = <<>>
    /\ files = <<>>
    /\ externals = <<>>
    /\ stage = 1
    /\ lastExitCode = 0
    /\ cmd = 1
    /\ writer = Nil
    /\ connector = Nil
    /\ reader = Nil
    /\ trace = <<>>
    /\ waited = <<>>
    /\ lineErr = "none"
    /\ mu = "free"
    /\ sigCh = 0
    /\ relayPc = "select"
    /\ interrupts = 0
    /\ signalled = {}
    /\ arrived = FALSE
    /\ wiring = <<>>

\* Run calls sysmon with what runPipeline returned: every checkInterval-th
\* call compares the open descriptors with the baseline and panics on a leak.
\* The line is over: its descriptor table is dropped from the state and what
\* it left open is counted in leaked; shell.pipeline is not read again before
\* Run assigns it; the processes still in shell.externals are from now on
\* those of an earlier line, and one entry, Earlier, stands for all of them
\* (the next sync waits for them before any process of its own stage, and any
\* wait status of the one entry stands for the last failure among them).
Sysmon ==
    /\ pc = "sysmon"
    /\ UNCHANGED accesses
    /\ UNCHANGED parseVars
    /\ LET counter == checkCounter + 1
       IN  IF counter = checkInterval /\ checkInterval # 0
           THEN IF OpenAboveBaseline > 0
                THEN pc' = "panic" /\ checkCounter' = counter
                ELSE pc' = "read" /\ checkCounter' = 0
           ELSE pc' = "read" /\ checkCounter' = counter
    /\ stopCh' = exit(pc')
    /\ leaked' = OpenAboveBaseline
    /\ files' = <<>>
    /\ pipeline' = <<>>
    /\ trace' = <<>>
    /\ waited' = <<>>
    /\ lineErr' = "none"
    /\ stage' = 1
    /\ lastExitCode' = 0
    /\ externals' = IF externals = <<>> THEN <<>> ELSE <<Earlier>>
    /\ running' = StillRunning(running, externals')
    /\ wiring' = <<>>
    /\ UNCHANGED <<lineNo, checkInterval, cmd, writer, connector, reader>>
    /\ UNCHANGED relayVars

\* Run, one turn of the loop: Readline yields a line, Parse succeeds and opens
\* the line's redirection files, and runPipeline is entered.
ReadLine ==
    /\ pc = "read"
    /\ UNCHANGED stopCh
    /\ UNCHANGED running
    /\ UNCHANGED accesses
    /\ UNCHANGED parseVars
    /\ lineNo < MaxLines
    /\ \E line \in Lines :
           LET parsed == Parse(line)
           IN  /\ pipeline' = parsed.pipeline
               /\ files' = parsed.files
    /\ lineNo' = lineNo + 1
    /\ pc' = "runPipeline"
    /\ stage' = 1
    /\ lastExitCode' = 0
    /\ UNCHANGED <<checkInterval, checkCounter, leaked, externals, cmd, writer,
                   connector, reader, trace, waited, lineErr>>
    /\ UNCHANGED relayVars
    /\ UNCHANGED wiring

\* Run, one turn of the loop in which Parse fails: buildSection cannot open
\* the input file of segment j, or cannot create its output file.  Parse
\* returns (nil, err) and closes nothing: the files of the segments before j,
\* and the input file of segment j when it is the output that fails, stay
\* open.  Run hands the error to sysmon.
ParseFails ==
    /\ pc = "read"
    /\ UNCHANGED stopCh
    /\ UNCHANGED running
    /\ UNCHANGED accesses
    /\ UNCHANGED parseVars
    /\ lineNo < MaxLines
    /\ \E line \in Lines :
       \E j \in 1..Len(line) :
       \E atOutput \in BOOLEAN :
           /\ IF atOutput THEN line[j].hasOut ELSE line[j].hasIn
           /\ files' = Parse(SubSeq(line, 1, j - 1)).files
                        \o IF atOutput /\ line[j].hasIn
                           THEN <<NewFile("input", j)>> ELSE <<>>
    /\ pipeline' = <<>>
    /\ lineNo' = lineNo + 1
    /\ lineErr' = "parse"
    /\ pc' = "sysmon"
    /\ stage' = 1
    /\ lastExitCode' = 0
    /\ UNCHANGED <<checkInterval, checkCounter, leaked, externals, cmd, writer,
                   connector, reader, trace, waited>>
    /\ UNCHANGED relayVars
    /\ UNCHANGED wiring

\* Run: Readline returns io.EOF, or the line is "exit": Run returns and the
\* deferred shell.exit() runs.
EndOfInput ==
    /\ pc = "read"
    /\ UNCHANGED running
    /\ UNCHANGED accesses
    /\ UNCHANGED parseVars
    /\ pc' = "done"
    /\ stopCh' = exit(pc')
    /\ UNCHANGED <<lineNo, checkInterval, checkCounter, leaked, pipeline, files,
                   externals, stage, lastExitCode, cmd, writer, connector,
                   reader, trace, waited, lineErr>>
    /\ UNCHANGED relayVars
    /\ UNCHANGED wiring

\* Run's Readline fails with an error that is neither ErrInterrupt nor EOF:
\* Run panics, and the deferred exit runs.
ReadlineFails ==
    /\ pc = "read"
    /\ UNCHANGED running
    /\ UNCHANGED accesses
    /\ UNCHANGED parseVars
    /\ pc' = "panic"
    /\ stopCh' = exit(pc')
    /\ UNCHANGED <<lineNo, checkInterval, checkCounter, leaked, pipeline, files,
                   externals, stage, lastExitCode, cmd, writer, connector,
                   reader, trace, waited, lineErr>>
    /\ UNCHANGED relayVars
    /\ UNCHANGED wiring

\* ---------------------------------------------------------- runPipeline
\* shouldRun without its second test: a stage after || always runs.
shouldRunWithoutOr(pl, i, exitCode) ==
    IF i > 1
    THEN IF pl[i - 1].NextAnd /\ exitCode # 0 THEN FALSE ELSE TRUE
    ELSE TRUE

\* The test of runPipeline that decides whether stage i runs.
shouldRun(pl, i, exitCode) ==
    IF i > 1
    THEN IF pl[i - 1].NextAnd /\ exitCode # 0 THEN FALSE
         ELSE IF pl[i - 1].NextOr /\ exitCode = 0 THEN FALSE
         ELSE TRUE
    ELSE TRUE

\* Return with the error dropped: the loop goes on after a hard fault.
ReturnIgnoringErr(exitCode, err) ==
    /\ lastExitCode' = exitCode
    /\ trace' = Append(trace, [ran |-> TRUE, seen |-> lastExitCode,
                                code |-> exitCode, err |-> err])
    /\ cmd' = 1
    /\ writer' = Nil
    /\ connector' = Nil
    /\ reader' = Nil
    /\ lineErr' = lineErr
    /\ stage' = stage + 1
    /\ pc' = "runPipeline"

\* Return with runPipeline's loop not moving on: the same stage comes again.
ReturnToSameStage(exitCode, err) ==
    /\ lastExitCode' = exitCode
    /\ trace' = Append(trace, [ran |-> TRUE, seen |-> lastExitCode,
                                code |-> exitCode, err |-> err])
    /\ cmd' = 1
    /\ writer' = Nil
    /\ connector' = Nil
    /\ reader' = Nil
    /\ lineErr' = IF err # "nil" THEN err ELSE lineErr
    /\ stage' = stage
    /\ pc' = IF err # "nil" THEN "sysmon" ELSE "runPipeline"

\* runPipeline once runPipe has returned (exitCode, err) for the stage: the
\* code is recorded and a non-nil error is returned to Run, which hands it to
\* sysmon; otherwise the loop goes on.
Return(exitCode, err) ==
    /\ lastExitCode' = exitCode
    /\ trace' = Append(trace, [ran |-> TRUE, seen |-> lastExitCode,
                                code |-> exitCode, err |-> err])
    /\ cmd' = 1
    /\ writer' = Nil
    /\ connector' = Nil
    /\ reader' = Nil
    /\ IF err # "nil"
       THEN /\ lineErr' = err
            /\ stage' = stage
            /\ pc' = "sysmon"
       ELSE /\ lineErr' = lineErr
            /\ stage' = stage + 1
            /\ pc' = "runPipeline"

\* runPipeline's loop is over: nil is returned to Run, which calls sysmon.
EndPipeline ==
    /\ pc = "runPipeline"
    /\ UNCHANGED stopCh
    /\ UNCHANGED running
    /\ UNCHANGED accesses
    /\ UNCHANGED parseVars
    /\ stage > Len(pipeline)
    /\ lineErr' = "nil"
    /\ pc' = "sysmon"
    /\ waited' = <<>>
    /\ UNCHANGED <<lineNo, checkInterval, checkCounter, leaked, pipeline, files, externals,
                   stage, lastExitCode, cmd, writer, connector, reader, trace>>
    /\ UNCHANGED relayVars
    /\ UNCHANGED wiring

\* SkipStage recording a skipped stage as a success.
SkipStageResettingCode ==
    /\ pc = "runPipeline"
    /\ UNCHANGED stopCh
    /\ UNCHANGED running
    /\ UNCHANGED accesses
    /\ UNCHANGED parseVars
    /\ stage <= Len(pipeline)
    /\ ~shouldRun(pipeline, stage, lastExitCode)
    /\ trace' = Append(trace, [ran |-> FALSE, seen |-> lastExitCode,
                                code |-> 0, err |-> "nil"])
    /\ stage' = stage + 1
    /\ waited' = <<>>
    /\ lastExitCode' = 0
    /\ UNCHANGED <<pc, lineNo, checkInterval, checkCounter, leaked, pipeline,
                   files, externals, cmd, writer, connector, reader,
                   lineErr>>
    /\ UNCHANGED relayVars
    /\ UNCHANGED wiring

\* runPipeline: shouldRun is false, the stage is passed over.
SkipStage ==
    /\ pc = "runPipeline"
    /\ UNCHANGED stopCh
    /\ UNCHANGED running
    /\ UNCHANGED accesses
    /\ UNCHANGED parseVars
    /\ stage <= Len(pipeline)
    /\ ~shouldRun(pipeline, stage, lastExitCode)
    /\ trace' = Append(trace, [ran |-> FALSE, seen |-> lastExitCode,
                                code |-> 0, err |-> "nil"])
    /\ stage' = stage + 1
    /\ waited' = <<>>
    /\ UNCHANGED <<pc, lineNo, checkInterval, checkCounter, leaked, pipeline,
                   files, externals, lastExitCode, cmd, writer, connector,
                   reader, lineErr>>
    /\ UNCHANGED relayVars
    /\ UNCHANGED wiring

\* runPipeline: shouldRun is true, runPipe is called for the stage.
RunStage ==
    /\ pc = "runPipeline"
    /\ UNCHANGED stopCh
    /\ UNCHANGED running
    /\ UNCHANGED accesses
    /\ UNCHANGED parseVars
    /\ stage <= Len(pipeline)
    /\ shouldRun(pipeline, stage, lastExitCode)
    /\ pc' = "runPipe"
    /\ cmd' = 1
    /\ writer' = Nil
    /\ connector' = Nil
    /\ reader' = Nil
    /\ waited' = <<>>
    /\ signalled' = {}
    /\ arrived' = FALSE
    /\ UNCHANGED <<lineNo, checkInterval, checkCounter, leaked, pipeline, files,
                   externals, stage, lastExitCode, trace, lineErr, mu, sigCh,
                   relayPc, interrupts, wiring>>

\* -------------------------------------------------------------- runPipe
\* One iteration of runPipe's loop whose os.Pipe call fails: os.Pipe returns
\* nil files, which are assigned to reader and writer, and runPipe closes
\* writer, connector and reader and returns (1, err).
PipeFails ==
    /\ pc = "runPipe"
    /\ UNCHANGED stopCh
    /\ UNCHANGED running
    /\ UNCHANGED accesses
    /\ UNCHANGED parseVars
    /\ cmd < Len(pipeline[stage].Section)
    /\ files' = closeDescriptors(files, <<Nil, connector, Nil>>)
    /\ Return(1, "pipe")
    /\ UNCHANGED <<lineNo, checkInterval, checkCounter, leaked, pipeline,
                   externals, waited>>
    /\ UNCHANGED relayVars
    /\ UNCHANGED wiring

\* StdinOf with its first two tests in the other order.
StdinOfPreferringFile(conn, inputFile) ==
    IF inputFile # Nil THEN inputFile
    ELSE IF conn # Nil THEN conn
    ELSE Stdin

\* external.Execute's choice of the command's standard input.
StdinOf(conn, inputFile) ==
    IF conn # Nil THEN conn
    ELSE IF inputFile # Nil THEN inputFile
    ELSE Stdin

\* StdoutOf with the output file first: a command that is not the last writes
\* to the file too.
StdoutOfPreferringFile(w, outputFile, isLast) ==
    IF outputFile # Nil THEN outputFile
    ELSE IF ~isLast THEN w
    ELSE Stdout

\* external.Execute's choice of the command's standard output, which is also
\* builtin.Execute's choice of the writer a builtin prints to.
StdoutOf(w, outputFile, isLast) ==
    IF ~isLast THEN w
    ELSE IF outputFile # Nil THEN outputFile
    ELSE Stdout

\* A write of size units through descriptor f.
Write(fs, f, size) ==
    IF f \in 1..Len(fs) THEN [fs EXCEPT ![f].content = @ + size] ELSE fs

\* One iteration of runPipe's loop whose os.Pipe call (if any) succeeds: the
\* command is dispatched to builtin.Execute or external.Execute.  A builtin
\* prints its output before it returns; what it prints to a pipe stays in the
\* pipe's buffer, since the command that will read it is not started yet, and
\* a write of more than the buffer holds does not return.  When the command
\* fails runPipe closes what it holds and returns (1, err); otherwise a
\* started process is appended to shell.externals, writer and connector are
\* closed and the read end becomes the next command's connector.
Launch ==
    /\ pc = "runPipe"
    /\ UNCHANGED stopCh
    /\ UNCHANGED running
    /\ UNCHANGED parseVars
    /\ cmd <= Len(pipeline[stage].Section)
    /\ LET pipe          == pipeline[stage]
           command       == pipe.Section[cmd]
           builtinCommand == command \in builtins
           lastInSection == (cmd = Len(pipe.Section))
           piped         == IF lastInSection THEN files
                            ELSE files \o <<NewFile("read end", stage),
                                            NewFile("write end", stage)>>
           newReader     == IF lastInSection THEN reader ELSE Len(files) + 1
           newWriter     == IF lastInSection THEN writer ELSE Len(files) + 2
           stdout        == StdoutOf(newWriter, pipe.Output, lastInSection)
           stdin         == IF builtinCommand THEN Nil
                            ELSE StdinOf(connector, pipe.Input)
       IN  \E ok \in BOOLEAN :
           \E size \in IF builtinCommand /\ ok THEN OutputSizes ELSE {0} :
               IF ok /\ ~lastInSection /\ size > PipeCapacity
               THEN /\ pc' = "blocked"
                    /\ files' = Write(piped, stdout, PipeCapacity)
                    /\ UNCHANGED <<externals, stage, lastExitCode, cmd, writer,
                                   connector, reader, trace, lineErr, wiring,
                                   accesses>>
               ELSE IF ok
               THEN /\ externals' =
                          IF builtinCommand THEN externals
                          ELSE Append(externals, Process(lineNo, stage, cmd))
                    /\ files' = closeDescriptors(Write(piped, stdout, size),
                                                 <<newWriter, connector>>)
                    /\ accesses' =
                          IF builtinCommand THEN accesses
                          ELSE accesses \cup {Access("main", "write", "main")}
                    /\ wiring' = Append(wiring,
                                        [stage |-> stage, cmd |-> cmd,
                                         external |-> ~builtinCommand,
                                         stdin |-> stdin, stdout |-> stdout,
                                         wrote |-> size])
                    /\ writer' = newWriter
                    /\ reader' = newReader
                    /\ connector' = IF lastInSection THEN connector ELSE newReader
                    /\ cmd' = cmd + 1
                    /\ UNCHANGED <<pc, stage, lastExitCode, trace, lineErr>>
               ELSE /\ externals' = externals
                    /\ files' = closeDescriptors(piped,
                                    <<newWriter, connector, newReader,
                                      pipe.Input, pipe.Output>>)
                    /\ wiring' = wiring
                    /\ accesses' = accesses
                    /\ Return(1, IF builtinCommand THEN "builtin" ELSE "spawn")
    /\ UNCHANGED <<lineNo, checkInterval, checkCounter, leaked, pipeline, waited>>
    /\ UNCHANGED relayVars

\* CloseStage returning without the call of sync.
CloseStageWithoutSync ==
    /\ pc = "runPipe"
    /\ UNCHANGED stopCh
    /\ UNCHANGED running
    /\ UNCHANGED parseVars
    /\ cmd > Len(pipeline[stage].Section)
    /\ LET pipe == pipeline[stage]
       IN  files' = closeDescriptors(files, <<reader, pipe.Input, pipe.Output>>)
    /\ accesses' = accesses \cup {Access("main", "read", mu)}
    /\ Return(0, "nil")
    /\ UNCHANGED <<lineNo, checkInterval, checkCounter, leaked, pipeline,
                   externals, waited, mu, sigCh, relayPc, interrupts, signalled,
                   arrived, wiring>>

\* runPipe after its loop: reader and the redirection files are closed; with
\* no tracked process runPipe returns (0, nil), otherwise it calls sync, which
\* locks shell.mu (interruptHandler's critical section is one step of the
\* model, so the mutex is free whenever runPipe asks for it).
CloseStage ==
    /\ pc = "runPipe"
    /\ UNCHANGED stopCh
    /\ UNCHANGED running
    /\ UNCHANGED parseVars
    /\ cmd > Len(pipeline[stage].Section)
    /\ LET pipe == pipeline[stage]
       IN  files' = closeDescriptors(files, <<reader, pipe.Input, pipe.Output>>)
    /\ accesses' = accesses \cup {Access("main", "read", mu)}
    /\ IF externals # <<>>
       THEN /\ pc' = "sync"
            /\ mu' = "main"
            /\ UNCHANGED <<stage, lastExitCode, cmd, writer, connector, reader,
                           trace, lineErr>>
       ELSE Return(0, "nil") /\ mu' = mu
    /\ UNCHANGED <<lineNo, checkInterval, checkCounter, leaked, pipeline,
                   externals, waited, sigCh, relayPc, interrupts, signalled,
                   arrived, wiring>>

\* Sync leaving shell.externals as it is.
SyncWithoutReset ==
    /\ pc = "sync"
    /\ UNCHANGED stopCh
    /\ UNCHANGED parseVars
    /\ \E statuses \in [1..Len(externals) -> WaitStatuses] :
           LET err == Wait(statuses)
           IN  /\ waited' = [x \in 1..Len(externals) |->
                                [proc |-> externals[x], ps |-> statuses[x]]]
               /\ IF err # <<>>
                  THEN Return(ExitCode(err[1]), "nil")
                  ELSE Return(0, "nil")
    /\ externals' = externals
    /\ running' = StillRunning(running, externals')
    /\ mu' = "free"
    /\ accesses' = accesses \cup {Access("main", "read", mu),
                                  Access("main", "write", mu)}
    /\ UNCHANGED <<lineNo, checkInterval, checkCounter, leaked, pipeline, files,
                   sigCh, relayPc, interrupts, signalled, arrived, wiring>>

\* sync and the end of runPipe: external.Wait reaps every tracked process,
\* shell.externals is reset, shell.mu is unlocked, and an *exec.ExitError
\* becomes the stage's exit code.
Sync ==
    /\ pc = "sync"
    /\ UNCHANGED stopCh
    /\ UNCHANGED parseVars
    /\ \E statuses \in [1..Len(externals) -> WaitStatuses] :
           LET err == Wait(statuses)
           IN  /\ waited' = [x \in 1..Len(externals) |->
                                [proc |-> externals[x], ps |-> statuses[x]]]
               /\ IF err # <<>>
                  THEN Return(ExitCode(err[1]), "nil")
                  ELSE Return(0, "nil")
    /\ externals' = <<>>
    /\ running' = StillRunning(running, externals')
    /\ mu' = "free"
    /\ accesses' = accesses \cup {Access("main", "read", mu),
                                  Access("main", "write", mu)}
    /\ UNCHANGED <<lineNo, checkInterval, checkCounter, leaked, pipeline, files,
                   sigCh, relayPc, interrupts, signalled, arrived, wiring>>

Next ==
    \/ ReadLine
    \/ ParseFails
    \/ EndOfInput
    \/ ReadlineFails
    \/ Sysmon
    \/ EndPipeline
    \/ SkipStage
    \/ RunStage
    \/ PipeFails
    \/ Launch
    \/ CloseStage
    \/ Sync

Spec == Init /\ [][Next]_vars

\* ----------------------------------------------------- interruptHandler
\* The process receives an interrupt: signal.Notify (boot) has the runtime
\* send it on shell.sigCh without blocking, so it is dropped when the buffer
\* of one is full.
Interrupt ==
    /\ interrupts < MaxInterrupts
    /\ UNCHANGED stopCh
    /\ UNCHANGED accesses
    /\ UNCHANGED parseVars
    /\ pc \notin {"done", "panic"}
    /\ interrupts' = interrupts + 1
    /\ sigCh' = 1
    /\ running' = IF sigCh = 0
                  THEN [running EXCEPT
                            !.buffered = Arrival(Range(externals), pc = "read")]
                  ELSE running
    /\ arrived' = (arrived \/ pc = "sync")
    /\ UNCHANGED <<pc, lineNo, checkInterval, checkCounter, leaked, pipeline,
                   files, externals, stage, lastExitCode, cmd, writer, connector,
                   reader, trace, waited, lineErr, mu, relayPc, signalled,
                   wiring>>

\* Run's Readline returns readline.ErrInterrupt, an interrupt typed at the
\* prompt: the loop continues with the next Readline and nothing else happens.
\* The terminal hands the key to Readline, not to shell.sigCh.
ReadInterrupted ==
    /\ interrupts < MaxInterrupts
    /\ UNCHANGED stopCh
    /\ pc = "read"
    /\ interrupts' = interrupts + 1
    /\ pc' = "read"
    /\ UNCHANGED <<lineNo, checkInterval, checkCounter, leaked, pipeline, files,
                   externals, stage, lastExitCode, cmd, writer, connector,
                   reader, trace, waited, lineErr, mu, sigCh, relayPc,
                   signalled, arrived, wiring, running, accesses>>
    /\ UNCHANGED parseVars

\* interruptHandler's select takes the signal from shell.sigCh and goes on to
\* shell.mu.Lock().
RelayReceive ==
    /\ relayPc = "select"
    /\ UNCHANGED stopCh
    /\ UNCHANGED accesses
    /\ UNCHANGED parseVars
    /\ sigCh = 1
    /\ sigCh' = 0
    /\ running' = [buffered |-> NoneRunning.buffered, held |-> running.buffered]
    /\ relayPc' = "lock"
    /\ UNCHANGED <<pc, lineNo, checkInterval, checkCounter, leaked, pipeline,
                   files, externals, stage, lastExitCode, cmd, writer, connector,
                   reader, trace, waited, lineErr, mu, interrupts, signalled,
                   arrived, wiring>>

\* RelayForward without shell.mu.Lock(): the list is walked at once.
RelayForwardWithoutLock ==
    /\ relayPc = "lock"
    /\ UNCHANGED stopCh
    /\ UNCHANGED parseVars
    /\ signalled' = signalled \cup
           {[proc |-> externals[x], inSync |-> (pc = "sync")] : x \in 1..Len(externals)}
    /\ accesses' = accesses \cup {Access("relay", "read", mu)}
    /\ running' = [running EXCEPT !.held = NoneRunning.held]
    /\ relayPc' = "select"
    /\ UNCHANGED <<pc, lineNo, checkInterval, checkCounter, leaked, pipeline,
                   files, externals, stage, lastExitCode, cmd, writer, connector,
                   reader, trace, waited, lineErr, mu, sigCh, interrupts,
                   arrived, wiring>>

\* interruptHandler's critical section: once shell.mu is free it is locked,
\* every process of shell.externals is sent os.Interrupt, and it is unlocked.
RelayForward ==
    /\ relayPc = "lock"
    /\ UNCHANGED stopCh
    /\ UNCHANGED parseVars
    /\ mu = "free"
    /\ signalled' = signalled \cup
           {[proc |-> externals[x], inSync |-> (pc = "sync")] : x \in 1..Len(externals)}
    /\ accesses' = accesses \cup {Access("relay", "read", "relay")}
    /\ running' = [running EXCEPT !.held = NoneRunning.held]
    /\ relayPc' = "select"
    /\ UNCHANGED <<pc, lineNo, checkInterval, checkCounter, leaked, pipeline,
                   files, externals, stage, lastExitCode, cmd, writer, connector,
                   reader, trace, waited, lineErr, mu, sigCh, interrupts,
                   arrived, wiring>>

\* Run is over and the deferred exit has closed shell.stopCh:
\* interruptHandler's select returns.
RelayStop ==
    /\ relayPc = "select"
    /\ UNCHANGED stopCh
    /\ UNCHANGED running
    /\ UNCHANGED accesses
    /\ UNCHANGED parseVars
    /\ stopCh = "closed"
    /\ relayPc' = "stopped"
    /\ UNCHANGED <<pc, lineNo, checkInterval, checkCounter, leaked, pipeline,
                   files, externals, stage, lastExitCode, cmd, writer, connector,
                   reader, trace, waited, lineErr, mu, sigCh, interrupts,
                   signalled, arrived, wiring>>

\* The shell about to read the last line of a session, with the processes an
\* earlier line may have left in shell.externals; sysmon audits the
\* descriptors after every line.
InitLastLine ==
    /\ pc = "read"
    /\ stopCh = "open"
    /\ running = NoneRunning
    /\ accesses = {}
    /\ NoText
    /\ lineNo = MaxLines - 1
    /\ checkInterval = 1
    /\ checkCounter = 0
    /\ leaked = 0
    /\ pipeline = <<>>
    /\ files = <<>>
    /\ externals \in {<<>>, <<Earlier>>}
    /\ stage = 1
    /\ lastExitCode = 0
    /\ cmd = 1
    /\ writer = Nil
    /\ connector = Nil
    /\ reader = Nil
    /\ trace = <<>>
    /\ waited = <<>>
    /\ lineErr = "none"
    /\ mu = "free"
    /\ sigCh = 0
    /\ relayPc = "select"
    /\ interrupts = 0
    /\ signalled = {}
    /\ arrived = FALSE
    /\ wiring = <<>>

NextRelay ==
    \/ ReadLine
    \/ EndOfInput
    \/ ReadlineFails
    \/ Sysmon
    \/ EndPipeline
    \/ SkipStage
    \/ RunStage
    \/ PipeFails
    \/ Launch
    \/ CloseStage
    \/ Sync
    \/ Interrupt
    \/ ReadInterrupted
    \/ RelayReceive
    \/ RelayForward
    \/ RelayStop

\* The shell with interruptHandler running beside it.
SpecRelay == InitLastLine /\ [][NextRelay]_vars

\* The shell about to read the last line of a session whose earlier lines
\* have left no process behind.
InitOnlyLine == InitLastLine /\ externals = <<>>

\* A step of the interruptHandler goroutine.
interruptHandler == RelayReceive \/ RelayForward \/ RelayStop

\* Such a session with the Go scheduler's guarantee for the goroutine: while
\* it can go on (a case of its select is ready, the mutex it locks stays
\* free) it does.
SpecRelayFair == InitOnlyLine /\ [][NextRelay]_vars /\ WF_vars(interruptHandler)

\* ----------------------------------------------------- the parser, on text
\* A line is a sequence of characters.  "a" is a letter, and "$" stands for
\* the text ${X} of a reference to a variable that is not set.
Chars == {"a", " ", "&", "|", ">", "<", "$"}

\* What the lines are put together from: the characters, and the operators of
\* two characters.
Pieces == {<<c>> : c \in Chars} \cup {<<"&", "&">>, <<"|", "|">>, <<">", ">">>}

\* The characters of a sequence of pieces.
RECURSIVE Concat(_)
Concat(pieces) ==
    IF pieces = <<>> THEN <<>> ELSE Head(pieces) \o Concat(Tail(pieces))

\* strings.HasPrefix.
HasPrefix(s, prefix) ==
    Len(s) >= Len(prefix) /\ SubSeq(s, 1, Len(prefix)) = prefix

\* s[n:].
Drop(s, n) == SubSeq(s, n + 1, Len(s))

\* strings.Contains.
Contains(s, sub) ==
    \E x \in 0..(Len(s) - Len(sub)) : SubSeq(s, x + 1, x + Len(sub)) = sub

\* strings.TrimSpace.
RECURSIVE TrimLeft(_)
TrimLeft(s) == IF s # <<>> /\ Head(s) = " " THEN TrimLeft(Tail(s)) ELSE s

RECURSIVE TrimRight(_)
TrimRight(s) ==
    IF s # <<>> /\ s[Len(s)] = " " THEN TrimRight(SubSeq(s, 1, Len(s) - 1)) ELSE s

TrimSpace(s) == TrimRight(TrimLeft(s))

\* strings.Split(s, sep) for a separator of one character: the pieces between
\* the separators, one more than there are separators.
RECURSIVE Split(_, _)
Split(s, sep) ==
    IF \A x \in 1..Len(s) : s[x] # sep THEN <<s>>
    ELSE LET at == CHOOSE x \in 1..Len(s) :
                       s[x] = sep /\ \A y \in 1..(x - 1) : s[y] # sep
         IN  <<SubSeq(s, 1, at - 1)>> \o Split(Drop(s, at), sep)

\* strings.Fields: the maximal runs of characters that are not spaces.
Fields(s) == SelectSeq(Split(s, " "), LAMBDA field : field # <<>>)

\* expandEnv: os.Expand replaces the reference to a variable that is not set
\* by the empty string.
expandEnv(line) == SelectSeq(line, LAMBDA c : c # "$")

\* strings.NewReplacer("&&", " && ", "||", " || ", ">>", " >> ", ">", " > ",
\* "<", " < ").Replace: left to right, without overlap, the old strings tried
\* in argument order at each position.
RECURSIVE Replace(_)
Replace(line) ==
    IF line = <<>> THEN <<>>
    ELSE IF HasPrefix(line, <<"&", "&">>)
         THEN <<" ", "&", "&", " ">> \o Replace(Drop(line, 2))
    ELSE IF HasPrefix(line, <<"|", "|">>)
         THEN <<" ", "|", "|", " ">> \o Replace(Drop(line, 2))
    ELSE IF HasPrefix(line, <<">", ">">>)
         THEN <<" ", ">", ">", " ">> \o Replace(Drop(line, 2))
    ELSE IF Head(line) = ">" THEN <<" ", ">", " ">> \o Replace(Tail(line))
    ELSE IF Head(line) = "<" THEN <<" ", "<", " ">> \o Replace(Tail(line))
    ELSE <<Head(line)>> \o Replace(Tail(line))

\* saveWithOperator: the builder's content, if it has any, then the operator.
saveWithOperator(builder, operator, conditionals) ==
    Append(IF builder # <<>> THEN Append(conditionals, TrimSpace(builder))
           ELSE conditionals,
           operator)

\* splitByConditionals from the current byte on, with the builder and the
\* conditionals collected so far.
RECURSIVE splitFrom(_, _, _)
splitFrom(rest, builder, conditionals) ==
    IF rest = <<>> THEN Append(conditionals, TrimSpace(builder))
    ELSE IF HasPrefix(rest, <<"&", "&">>) \/ HasPrefix(rest, <<"|", "|">>)
         THEN splitFrom(Drop(rest, 2), <<>>,
                        saveWithOperator(builder, SubSeq(rest, 1, 2), conditionals))
    ELSE splitFrom(Tail(rest), Append(builder, Head(rest)), conditionals)

splitByConditionals(line) == splitFrom(line, <<>>, <<>>)

\* The file system d with the file called name holding content.
Put(d, name, content) ==
    [n \in DOMAIN d \cup {name} |-> IF n = name THEN content ELSE d[n]]

\* OpenFile with os.Create replaced by an open that creates the file and
\* keeps what an existing one holds.
OpenFileWithoutTruncating(name, direction, d) ==
    IF direction \in {<<">">>, <<">", ">">>}
    THEN [err |-> FALSE,
          disk |-> IF name \in DOMAIN d THEN d ELSE Put(d, name, <<>>)]
    ELSE [err |-> name \notin DOMAIN d, disk |-> d]

\* OpenFile truncating the file whatever the direction.
OpenFileTruncating(name, direction, d) ==
    IF direction = <<"<">>
    THEN [err |-> name \notin DOMAIN d, disk |-> d]
    ELSE [err |-> FALSE, disk |-> Put(d, name, <<>>)]

\* redirect's switch: os.Create truncates or creates the file, os.OpenFile
\* with O_APPEND|O_CREATE keeps what the file holds, os.Open fails on a file
\* that does not exist.
OpenFile(name, direction, d) ==
    IF direction = <<">">>
    THEN [err |-> FALSE, disk |-> Put(d, name, <<>>)]
    ELSE IF direction = <<">", ">">>
    THEN [err |-> FALSE,
          disk |-> IF name \in DOMAIN d THEN d ELSE Put(d, name, <<>>)]
    ELSE [err |-> name \notin DOMAIN d, disk |-> d]

\* redirect once os.Create, os.OpenFile or os.Open has returned o for the file
\* named by the token after token i: the file is entered in opened, the table
\* of the files Parse has opened so far (a file is its index there), and the
\* two tokens are removed from the arguments.
redirectOpened(cmdWithArgs, direction, opened, d, i, o) ==
    IF o.err
    THEN [file |-> Nil, args |-> <<>>, err |-> TRUE, opened |-> opened, disk |-> d]
    ELSE [file |-> Len(opened) + 1,
          args |-> SubSeq(cmdWithArgs, 1, i - 1)
                   \o SubSeq(cmdWithArgs, i + 2, Len(cmdWithArgs)),
          err |-> FALSE,
          opened |-> Append(opened, [name |-> cmdWithArgs[i + 1],
                                     direction |-> direction, offset |-> 0]),
          disk |-> o.disk]

\* redirect's switch, for the match at token i.
redirectAt(cmdWithArgs, direction, opened, d, i) ==
    redirectOpened(cmdWithArgs, direction, opened, d, i,
                   OpenFile(cmdWithArgs[i + 1], direction, d))

\* redirect: the first token equal to direction that has a token after it
\* names the file to open; without one the arguments are returned as they
\* are, with no file.
redirect(cmdWithArgs, direction, opened, d) ==
    IF \A i \in 1..(Len(cmdWithArgs) - 1) : cmdWithArgs[i] # direction
    THEN [file |-> Nil, args |-> cmdWithArgs, err |-> FALSE,
          opened |-> opened, disk |-> d]
    ELSE redirectAt(cmdWithArgs, direction, opened, d,
                    CHOOSE i \in 1..(Len(cmdWithArgs) - 1) :
                        /\ cmdWithArgs[i] = direction
                        /\ \A y \in 1..(i - 1) : cmdWithArgs[y] # direction)

\* buildSection's return on an error of redirect.
buildFailed(r) ==
    [section |-> <<>>, input |-> Nil, output |-> Nil, err |-> TRUE,
     opened |-> r.opened, disk |-> r.disk]

RECURSIVE buildFrom(_, _, _)

\* The end of the body of buildSection's loop, out being what the output
\* redirection of command i gave.
buildAppend(commands, i, acc, in, out) ==
    IF out.err THEN buildFailed(out)
    ELSE buildFrom(commands, i + 1,
                   [section |-> Append(acc.section, out.args),
                    input |-> in.file, output |-> out.file, err |-> FALSE,
                    opened |-> out.opened, disk |-> out.disk])

\* The body of buildSection's loop from the test for an output redirection
\* on, in being what the input redirection of command i gave.
buildOutput(commands, i, acc, in) ==
    IF in.err THEN buildFailed(in)
    ELSE buildAppend(commands, i, acc, in,
             IF i = Len(commands) /\ Contains(commands[i], <<">">>)
             THEN redirect(in.args,
                           IF Contains(commands[i], <<">", ">">>)
                           THEN <<">", ">">> ELSE <<">">>,
                           in.opened, in.disk)
             ELSE [file |-> acc.output, args |-> in.args, err |-> FALSE,
                   opened |-> in.opened, disk |-> in.disk])

\* The body of buildSection's loop for command i, tokenized as cmdWithArgs.
buildCommand(commands, i, acc, cmdWithArgs) ==
    IF cmdWithArgs = <<>> THEN buildFrom(commands, i + 1, acc)
    ELSE buildOutput(commands, i, acc,
             IF i = 1 /\ Contains(commands[i], <<"<">>)
             THEN redirect(cmdWithArgs, <<"<">>, acc.opened, acc.disk)
             ELSE [file |-> acc.input, args |-> cmdWithArgs, err |-> FALSE,
                   opened |-> acc.opened, disk |-> acc.disk])

\* buildSection's loop from command i on; acc holds section, input, output,
\* err and the files opened so far.
buildFrom(commands, i, acc) ==
    IF i > Len(commands) THEN acc
    ELSE buildCommand(commands, i, acc, Fields(TrimSpace(commands[i])))

\* buildSection: the conditional is split at the pipe symbols.
buildSection(conditional, opened, d) ==
    buildFrom(Split(conditional, "|"), 1,
              [section |-> <<>>, input |-> Nil, output |-> Nil, err |-> FALSE,
               opened |-> opened, disk |-> d])

\* AfterAppend leaving nextAnd and nextOr as they are.
AfterAppendKeepingFlags(st) ==
    [st EXCEPT !.skip = IF st.nextAnd \/ st.nextOr THEN 1 ELSE 0]

\* AfterAppend stepping over the operator and the conditional after it.
AfterAppendSteppingTwice(st) ==
    IF st.nextAnd \/ st.nextOr
    THEN [st EXCEPT !.nextAnd = FALSE, !.nextOr = FALSE, !.skip = 2]
    ELSE [st EXCEPT !.skip = 0]

\* The end of the body of Parse's loop: when the Pipe was appended with an
\* operator after it, the flags are reset and the operator is stepped over.
AfterAppend(st) ==
    IF st.nextAnd \/ st.nextOr
    THEN [st EXCEPT !.nextAnd = FALSE, !.nextOr = FALSE, !.skip = 1]
    ELSE [st EXCEPT !.skip = 0]

RECURSIVE parseFrom(_, _, _)

\* parseBuilt appending no Pipe for a section without commands.
parseBuiltSkippingEmpty(conditionals, i, st, built) ==
    IF built.err
    THEN [st EXCEPT !.pipeline = <<>>, !.err = TRUE,
                    !.opened = built.opened, !.disk = built.disk]
    ELSE IF built.section = <<>>
    THEN parseFrom(conditionals, i + 1,
                   AfterAppend([st EXCEPT !.opened = built.opened,
                                          !.disk = built.disk]))
    ELSE parseFrom(conditionals, i + 1,
                   AfterAppend([st EXCEPT
                       !.pipeline = Append(@, [Section |-> built.section,
                                               Input |-> built.input,
                                               Output |-> built.output,
                                               NextAnd |-> st.nextAnd,
                                               NextOr |-> st.nextOr]),
                       !.opened = built.opened, !.disk = built.disk]))

\* parseBuilt with the two flags taken for each other.
parseBuiltSwappingFlags(conditionals, i, st, built) ==
    IF built.err
    THEN [st EXCEPT !.pipeline = <<>>, !.err = TRUE,
                    !.opened = built.opened, !.disk = built.disk]
    ELSE parseFrom(conditionals, i + 1,
                   AfterAppend([st EXCEPT
                       !.pipeline = Append(@, [Section |-> built.section,
                                               Input |-> built.input,
                                               Output |-> built.output,
                                               NextAnd |-> st.nextOr,
                                               NextOr |-> st.nextAnd]),
                       !.opened = built.opened, !.disk = built.disk]))

\* The body of Parse's loop once buildSection has returned built for
\* conditional i: the error is returned, or the Pipe is appended.
parseBuilt(conditionals, i, st, built) ==
    IF built.err
    THEN [st EXCEPT !.pipeline = <<>>, !.err = TRUE,
                    !.opened = built.opened, !.disk = built.disk]
    ELSE parseFrom(conditionals, i + 1,
                   AfterAppend([st EXCEPT
                       !.pipeline = Append(@, [Section |-> built.section,
                                               Input |-> built.input,
                                               Output |-> built.output,
                                               NextAnd |-> st.nextAnd,
                                               NextOr |-> st.nextOr]),
                       !.opened = built.opened, !.disk = built.disk]))

\* The body of Parse's loop for a conditional that is a segment of text: the
\* flags are set from the conditional after it.
parseSegment(conditionals, i, st) ==
    parseBuilt(conditionals, i, st,
               buildSection(conditionals[i], st.opened, st.disk))

\* Parse's loop from conditional i on; st holds pipeline, nextAnd, nextOr, err
\* and the files opened so far, and skip is 1 when the loop's body has just
\* stepped over an operator.
parseFrom(conditionals, i, st) ==
    IF i + st.skip > Len(conditionals) THEN st
    ELSE IF conditionals[i + st.skip] \in {<<>>, <<"&", "&">>, <<"|", "|">>}
    THEN parseFrom(conditionals, i + st.skip + 1, [st EXCEPT !.skip = 0])
    ELSE parseSegment(conditionals, i + st.skip,
             [st EXCEPT
                 !.skip = 0,
                 !.nextAnd = @ \/ (/\ i + st.skip + 1 <= Len(conditionals)
                                   /\ conditionals[i + st.skip + 1] = <<"&", "&">>),
                 !.nextOr = @ \/ (/\ i + st.skip + 1 <= Len(conditionals)
                                  /\ conditionals[i + st.skip + 1] = <<"|", "|">>)])

\* Parse on the text of a line, with the file system it finds: the pipeline
\* and error it returns, the files it has opened and the file system it
\* leaves.
ParseText(line, d) ==
    parseFrom(splitByConditionals(Replace(expandEnv(line))), 1,
              [pipeline |-> <<>>, nextAnd |-> FALSE, nextOr |-> FALSE,
               err |-> FALSE, skip |-> 0, opened |-> <<>>, disk |-> d])

\* ------------------------------------------------- Run, on the text
\* The lines Run hands to Parse: it has trimmed them and dropped the empty
\* ones.
Texts ==
    {t \in {Concat(pieces) : pieces \in SeqsUpTo(Pieces, MaxTextLen)} :
        t # <<>> /\ TrimSpace(t) = t}

\* The lines read after the first one: the redirections of one command.
LaterTexts ==
    {<<"a", ">", "a">>, <<"a", ">", ">", "a">>, <<"a", "<", "a">>}

\* (*os.File).Write of datum through the file descriptor o: a file opened with
\* O_APPEND is written at its end, another one at the descriptor's offset.
WriteFile(d, o, datum) ==
    LET content == d[o.name]
    IN  Put(d, o.name,
            IF o.direction = <<">", ">">>
            THEN Append(content, datum)
            ELSE SubSeq(content, 1, o.offset) \o <<datum>>
                 \o SubSeq(content, o.offset + 2, Len(content)))

\* runPipeline from stage i on with every command taken to be echo, which
\* succeeds: a stage is run unless the one before it is followed by ||; the
\* dispatch on command[0] panics on a command with no token; the last command
\* of a stage prints to the stage's Output when it has one.
RECURSIVE runFrom(_, _, _, _)
runFrom(pl, i, openedFiles, d) ==
    IF i > Len(pl) THEN [disk |-> d, panic |-> FALSE]
    ELSE IF ~shouldRun(pl, i, 0) THEN runFrom(pl, i + 1, openedFiles, d)
    ELSE IF \E c \in 1..Len(pl[i].Section) : pl[i].Section[c] = <<>>
    THEN [disk |-> d, panic |-> TRUE]
    ELSE runFrom(pl, i + 1, openedFiles,
                 IF pl[i].Section # <<>> /\ pl[i].Output # Nil
                 THEN WriteFile(d, openedFiles[pl[i].Output], textNo)
                 ELSE d)

\* boot, for the parser: the file named a exists, no other file does.
InitText ==
    /\ pc = "read"
    /\ stopCh = "open"
    /\ running = NoneRunning
    /\ accesses = {}
    /\ lineNo = 0
    /\ checkInterval = 0
    /\ checkCounter = 0
    /\ leaked = 0
    /\ pipeline = <<>>
    /\ files = <<>>
    /\ externals = <<>>
    /\ stage = 1
    /\ lastExitCode = 0
    /\ cmd = 1
    /\ writer = Nil
    /\ connector = Nil
    /\ reader = Nil
    /\ trace = <<>>
    /\ waited = <<>>
    /\ lineErr = "none"
    /\ mu = "free"
    /\ sigCh = 0
    /\ relayPc = "select"
    /\ interrupts = 0
    /\ signalled = {}
    /\ arrived = FALSE
    /\ wiring = <<>>
    /\ text \in Texts
    /\ textNo = 1
    /\ parsedText = [pipeline |-> <<>>, err |-> FALSE, opened |-> <<>>]
    /\ disk = Put(NoFiles, <<"a">>, <<0>>)
    /\ before = disk
    /\ phase = "read"

\* Run reads the next line.
ReadText ==
    /\ phase \in {"ran", "failed"}
    /\ UNCHANGED stopCh
    /\ UNCHANGED running
    /\ UNCHANGED accesses
    /\ textNo < MaxLines
    /\ text' \in LaterTexts
    /\ textNo' = textNo + 1
    /\ parsedText' = [pipeline |-> <<>>, err |-> FALSE, opened |-> <<>>]
    /\ before' = disk
    /\ phase' = "read"
    /\ UNCHANGED disk
    /\ UNCHANGED shellVars
    /\ UNCHANGED relayVars

\* Run calls parser.Parse on the line.
ParseLine ==
    /\ phase = "read"
    /\ UNCHANGED stopCh
    /\ UNCHANGED running
    /\ UNCHANGED accesses
    /\ LET result == ParseText(text, disk)
       IN  /\ parsedText' = [pipeline |-> result.pipeline, err |-> result.err,
                             opened |-> result.opened]
           /\ disk' = result.disk
           /\ phase' = IF result.err THEN "failed" ELSE "parsed"
    /\ UNCHANGED <<text, textNo, before>>
    /\ UNCHANGED shellVars
    /\ UNCHANGED relayVars

\* Run calls runPipeline on what Parse returned.
RunText ==
    /\ phase = "parsed"
    /\ UNCHANGED stopCh
    /\ UNCHANGED running
    /\ UNCHANGED accesses
    /\ LET result == runFrom(parsedText.pipeline, 1, parsedText.opened, disk)
       IN  /\ disk' = result.disk
           /\ phase' = IF result.panic THEN "panic" ELSE "ran"
    /\ UNCHANGED <<text, textNo, parsedText, before>>
    /\ UNCHANGED shellVars
    /\ UNCHANGED relayVars

NextParse ==
    \/ ReadText
    \/ ParseLine
    \/ RunText

\* The shell seen from the text of its lines.
SpecParse == InitText /\ [][NextParse]_vars

\* ---------------------------------------------------------------- claims
\* The stages of the current line that runPipeline has run or passed over.
Decided == 1..Len(trace)

\* The exit code returned by the most recent stage before stage j that was
\* run, 0 when none was.
RECURSIVE CodeOfLastRun(_)
CodeOfLastRun(j) ==
    IF j <= 1 THEN 0
    ELSE IF trace[j - 1].ran THEN trace[j - 1].code ELSE CodeOfLastRun(j - 1)

\* C1: stage 1 always runs; a later stage is skipped if and only if the stage
\* before it is followed by && and the exit code the test saw is non-zero, or
\* it is followed by || and that exit code is zero.
C1_ConditionalRule ==
    \A j \in Decided :
        (~trace[j].ran) <=>
            /\ j > 1
            /\ \/ pipeline[j - 1].NextAnd /\ trace[j].seen # 0
               \/ pipeline[j - 1].NextOr /\ trace[j].seen = 0

\* `false && a || b`: the second stage was skipped, the third was run.
C1_Witness ==
    /\ Len(trace) = 3
    /\ trace[1].ran /\ trace[1].code # 0
    /\ pipeline[1].NextAnd /\ ~trace[2].ran
    /\ pipeline[2].NextOr /\ trace[3].ran

\* C2: a skipped stage does not update the recorded exit code: the code that
\* the test of any stage sees, and the code runPipeline holds for the next
\* test, is the one returned by the most recent stage that was run.
C2_SkipKeepsExitCode ==
    /\ \A j \in Decided : trace[j].seen = CodeOfLastRun(j)
    /\ pc \in {"runPipeline", "runPipe", "sync"} =>
           lastExitCode = CodeOfLastRun(Len(trace) + 1)

\* A stage was run with a non-zero code, the next was skipped, and the test of
\* the third stage has been made.
C2_Witness ==
    /\ Len(trace) = 3
    /\ trace[1].ran /\ trace[1].code # 0
    /\ ~trace[2].ran
    /\ trace[3].seen # 0

\* C5: the line ends after its last stage or at once on a hard fault: a stage
\* for which runPipe returned an error is the last one runPipeline dealt with
\* and runPipeline has returned that error; and when runPipeline has returned
\* without an error, whatever the exit codes, every stage was run or skipped
\* (a line Parse rejected never reaches runPipeline).
C5_PipelineEnds ==
    /\ \A j \in Decided :
           trace[j].err # "nil" =>
               j = Len(trace) /\ pc = "sysmon" /\ lineErr = trace[j].err
    /\ (pc = "sysmon" /\ lineErr # "parse"
            /\ \A j \in Decided : trace[j].err = "nil") =>
           lineErr = "nil" /\ Len(trace) = Len(pipeline)

\* A hard fault in a stage that is not the last: the line ended early.
C5_Witness ==
    /\ pc = "sysmon"
    /\ trace # <<>>
    /\ trace[Len(trace)].err # "nil"
    /\ Len(trace) < Len(pipeline)

\* The stages of the current line for which runPipe has returned.
Returned == {j \in Decided : trace[j].ran}

\* What the conditional rule asks of the entry after stage j, given the code
\* that stage j returned.
EvaluatedWith(j, code) ==
    /\ trace[j + 1].seen = code
    /\ trace[j + 1].ran <=>
           ~((pipeline[j].NextAnd /\ code # 0) \/ (pipeline[j].NextOr /\ code = 0))

\* C3: a builtin error aborts only its stage: the stage is recorded with
\* exit code 1 and, once the line is over, every later stage of the line has
\* been evaluated by the conditional rule, the next one with that code.
C3_BuiltinErrorStageLocal ==
    \A j \in Returned :
        trace[j].err = "builtin" =>
            /\ trace[j].code = 1
            /\ pc = "sysmon" =>
                   /\ Len(trace) = Len(pipeline)
                   /\ j < Len(trace) => EvaluatedWith(j, 1)

\* C4: a spawn error has the same scope: the stage is recorded as failed and,
\* once the line is over, every later stage of the line has been evaluated by
\* the conditional rule, the next one with the stage's code.
C4_SpawnErrorStageLocal ==
    \A j \in Returned :
        trace[j].err = "spawn" =>
            /\ trace[j].code # 0
            /\ pc = "sysmon" =>
                   /\ Len(trace) = Len(pipeline)
                   /\ j < Len(trace) => EvaluatedWith(j, trace[j].code)

\* Some process reaped by the last sync exited with a non-zero status or was
\* killed by a signal.
ReapedFailure(reaped) == \E x \in 1..Len(reaped) : ~Success(reaped[x].ps)

\* A stage of the current line returned a non-zero code and no error, which
\* runPipe does only for a failed wait.
WaitErrorInLine == \E j \in Returned : trace[j].err = "nil" /\ trace[j].code # 0

\* The part of C6 about runPipe: when the wait reaps a failed or signalled
\* child, runPipe returns a non-zero code and no error, and runPipeline goes
\* on to the next stage.
C6_WaitErrorConverted ==
    [][pc = "sync" /\ ReapedFailure(waited') =>
           /\ trace'[Len(trace')].code # 0
           /\ trace'[Len(trace')].err = "nil"
           /\ pc' = "runPipeline"]_vars

\* C6: a child reaped with a non-zero status or killed by a signal becomes a
\* non-zero exit code and no hard fault, the remaining stages are evaluated,
\* and after the line the loop goes on to the next prompt.
C6_WaitErrorNotFatal ==
    [][/\ pc = "sync" /\ ReapedFailure(waited') =>
              /\ trace'[Len(trace')].code # 0
              /\ trace'[Len(trace')].err = "nil"
              /\ pc' = "runPipeline"
       /\ pc = "sysmon" /\ WaitErrorInLine => pc' = "read"]_vars

\* The wait statuses, in launch order, of the processes reaped by the last
\* sync that stage st of the current line spawned.
RECURSIVE OwnStatuses(_, _)
OwnStatuses(reaped, st) ==
    IF reaped = <<>> THEN <<>>
    ELSE LET own == Head(reaped).proc.line = lineNo /\ Head(reaped).proc.stage = st
         IN  (IF own THEN <<Head(reaped).ps>> ELSE <<>>)
             \o OwnStatuses(Tail(reaped), st)

\* The exit code of the rightmost status that is not a success, 0 when all are.
RECURSIVE RightmostFailure(_)
RightmostFailure(statuses) ==
    IF statuses = <<>> THEN 0
    ELSE IF ~Success(statuses[Len(statuses)])
         THEN ExitCode(statuses[Len(statuses)])
         ELSE RightmostFailure(SubSeq(statuses, 1, Len(statuses) - 1))

\* C7: when the launches of a stage all succeed, runPipe reports 0 if every
\* external command of the stage exited with status 0, and otherwise the
\* status of the rightmost command of the stage with a non-zero status.  It is
\* stated where runPipe has just returned to runPipeline's loop.
C7_RightmostFailureWins ==
    (trace # <<>> /\ pc = "runPipeline") =>
        LET last == trace[Len(trace)]
        IN  (last.ran /\ last.err = "nil") =>
                last.code = RightmostFailure(OwnStatuses(waited, Len(trace)))

\* C8: whenever runPipe has returned for a stage, no descriptor of that stage
\* (pipe end or redirection file) is open in the shell.
C8_StageDescriptorsClosed ==
    \A j \in Returned :
        \A f \in 1..Len(files) : files[f].stage = j => ~files[f].open

\* C9: when the line Parse has accepted is over, the redirection files of the
\* stages that were not executed (skipped, or never reached) are closed.
C9_UnexecutedStageFilesClosed ==
    (pc = "sysmon" /\ lineErr # "parse") =>
        \A f \in 1..Len(files) : files[f].stage \notin Returned => ~files[f].open

\* C10: Close is called at most once on any descriptor.
C10_ClosedAtMostOnce ==
    \A f \in 1..Len(files) : files[f].closes <= 1

\* The descriptors of the given kind that runPipe created for stage j.
PipeEnds(j, kind) ==
    {f \in 1..Len(files) : files[f].stage = j /\ files[f].kind = kind}

\* C11: a stage of n commands that completes has created exactly n-1 pipes,
\* and whenever runPipe has returned for a stage, both ends of every pipe it
\* created for the stage are closed in the shell.
C11_PipesCreatedAndClosed ==
    \A j \in Returned :
        /\ trace[j].err = "nil" =>
               /\ Cardinality(PipeEnds(j, "read end")) = Len(pipeline[j].Section) - 1
               /\ Cardinality(PipeEnds(j, "write end")) = Len(pipeline[j].Section) - 1
        /\ \A f \in PipeEnds(j, "read end") \cup PipeEnds(j, "write end") :
               ~files[f].open

\* `cmd1 | cmd2 | cmd3` has completed: two pipes were created.
C11_Witness ==
    /\ trace # <<>>
    /\ trace[Len(trace)].ran /\ trace[Len(trace)].err = "nil"
    /\ Len(pipeline[Len(trace)].Section) = 3
    /\ Cardinality(PipeEnds(Len(trace), "read end")) = 2

\* C12: an interrupt that arrives while runPipe is waiting in sync for the
\* processes of a stage is forwarded to them before the wait is over: once
\* interruptHandler has taken the signal from the channel, it is not kept from
\* its critical section while the wait lasts, and when the wait is over it has
\* signalled every process of the stage.
C12_InterruptForwardedDuringWait ==
    /\ (pc = "sync" /\ arrived /\ relayPc = "lock") => mu = "free"
    /\ (pc = "runPipeline" /\ arrived /\ relayPc = "lock") =>
           \A x \in 1..Len(waited) :
               waited[x].proc.line = lineNo =>
                   [proc |-> waited[x].proc, inSync |-> TRUE] \in signalled

\* The commands started so far in stage j of the current line, in order.
Started(j) == SelectSeq(wiring, LAMBDA w : w.stage = j)

\* Stage j has a builtin for its first command and an external command for
\* its last.
BuiltinThenExternal(j) ==
    LET section == pipeline[j].Section
    IN  section[1] \in builtins /\ section[Len(section)] \notin builtins

\* The part of C13 about the data: an external command started right after a
\* builtin has for standard input the read end of the pipe that holds exactly
\* what the builtin wrote and whose write end the shell has closed, so that
\* end-of-input follows the output.
C13_PipedExactly ==
    \A j \in 1..Len(pipeline) :
        \A k \in 1..(Len(Started(j)) - 1) :
            LET from == Started(j)[k]
                to   == Started(j)[k + 1]
            IN  (~from.external /\ to.external) =>
                    /\ files[to.stdin].kind = "read end"
                    /\ from.stdout = to.stdin + 1
                    /\ files[from.stdout].content = from.wrote
                    /\ ~files[from.stdout].open

\* C13: in a stage whose first command is a builtin and whose last is an
\* external command, the external command receives exactly the builtin's
\* output followed by end-of-input, and the stage terminates whatever the
\* size of that output: runPipe never hangs in the builtin's write.
C13_BuiltinOutputPiped ==
    /\ C13_PipedExactly
    /\ pc = "blocked" => ~BuiltinThenExternal(stage)

\* The commands of stage j that were started with the stage's output file for
\* standard output.
WritersOf(j) ==
    {k \in 1..Len(Started(j)) : Started(j)[k].stdout = pipeline[j].Output}

\* C14: while the commands of a stage are launched, every earlier stage of the
\* line that was run with an output redirection has all of its output in the
\* file (what its builtin printed is there, and no process of the stage is
\* left running) and the shell has closed the file.
C14_OutputCompleteBeforeNextStage ==
    pc = "runPipe" =>
        \A j \in Returned :
            pipeline[j].Output # Nil =>
                /\ ~files[pipeline[j].Output].open
                /\ \A x \in 1..Len(externals) :
                       ~(externals[x].line = lineNo /\ externals[x].stage = j)
                /\ \A k \in WritersOf(j) :
                       ~Started(j)[k].external =>
                           files[pipeline[j].Output].content = Started(j)[k].wrote

\* `prog > out && ...`: the second stage is being launched after a first
\* stage whose external command wrote to the output file.
C14_Witness ==
    /\ pc = "runPipe"
    /\ stage = 2
    /\ trace[1].ran
    /\ pipeline[1].Output # Nil
    /\ \E k \in WritersOf(1) : Started(1)[k].external

\* `echo hi > out && ...`: the same after a builtin that printed something.
C14_WitnessBuiltin ==
    /\ pc = "runPipe"
    /\ stage = 2
    /\ trace[1].ran
    /\ pipeline[1].Output # Nil
    /\ \E k \in WritersOf(1) : ~Started(1)[k].external /\ Started(1)[k].wrote > 0

\* The kind of descriptor d: that of its entry in files, or "std" for
\* os.Stdin and os.Stdout.
KindOf(d) == IF d \in 1..Len(files) THEN files[d].kind ELSE "std"

\* C20: of the commands started in a stage, only the first can have the
\* stage's input file for standard input and only the last can have its output
\* file for standard output; every other external command reads from a pipe
\* and every other command writes to a pipe.
C20_RedirectionOnlyAtEnds ==
    \A k \in 1..Len(wiring) :
        LET w    == wiring[k]
            last == Len(pipeline[w.stage].Section)
        IN  /\ KindOf(w.stdin) = "input" => w.cmd = 1
            /\ KindOf(w.stdout) = "output" => w.cmd = last
            /\ (w.external /\ w.cmd > 1) => KindOf(w.stdin) = "read end"
            /\ w.cmd < last => KindOf(w.stdout) = "write end"

\* `prog < in | prog`: both commands of a stage with an input file were
\* started, the first reads the file.
C20_Witness ==
    \E k \in 1..Len(wiring) :
        /\ wiring[k].cmd = 2
        /\ wiring[k].external
        /\ pipeline[wiring[k].stage].Input # Nil
        /\ KindOf(wiring[k - 1].stdin) = "input"

\* Parse has returned a Pipeline for the line.
Parsed == phase \in {"parsed", "ran", "panic"}

\* The line was parsed into one stage with commands and an Output, and has
\* been run: the file the stage's last command printed to.
Printed ==
    /\ phase = "ran"
    /\ Len(parsedText.pipeline) = 1
    /\ parsedText.pipeline[1].Section # <<>>
    /\ parsedText.pipeline[1].Output # Nil

PrintedTo == parsedText.opened[parsedText.pipeline[1].Output]

\* C15: a line that prints to a file redirected with >> leaves in the file
\* what it held before the line followed by what the line printed, and a line
\* that prints to a file redirected with > leaves in it what the line printed
\* and nothing else; so a after the first line with > and b after the second
\* with >> make a file holding a then b.
C15_AppendKeepsTruncateClears ==
    Printed =>
        IF PrintedTo.direction = <<">", ">">>
        THEN disk[PrintedTo.name] =
                 Append(IF PrintedTo.name \in DOMAIN before
                        THEN before[PrintedTo.name] ELSE <<>>,
                        textNo)
        ELSE disk[PrintedTo.name] = <<textNo>>

\* The second line, a>>a, has been run after a first line that left in the
\* file a what it printed alone: the file holds both, in order.
C15_Witness ==
    /\ Printed
    /\ textNo = 2
    /\ text = <<"a", ">", ">", "a">>
    /\ before[<<"a">>] = <<1>>
    /\ disk[<<"a">>] = <<1, 2>>

\* The line holds no && and no || once its environment references are
\* expanded.
Plain ==
    /\ ~Contains(expandEnv(text), <<"&", "&">>)
    /\ ~Contains(expandEnv(text), <<"|", "|">>)

\* C16 (as stated): the Pipeline Parse returns for a line without && and ||
\* has exactly one Stage, also when the line is empty or holds only pipe
\* symbols after environment expansion.
C16_OneStagePerPlainLine ==
    (Parsed /\ Plain) => Len(parsedText.pipeline) = 1

\* C16 (amended): the Pipeline Parse returns for a line without && and ||
\* has exactly one Stage when the expanded line is not blank, also when it
\* holds only pipe symbols, and no Stage when the expanded line is blank.
C16_OneStageUnlessBlank ==
    (Parsed /\ Plain) =>
        Len(parsedText.pipeline) =
            IF TrimSpace(expandEnv(text)) = <<>> THEN 0 ELSE 1

\* A line that holds only a pipe symbol after expansion was parsed into one
\* stage.
C16_Witness ==
    /\ Parsed
    /\ text = <<"$", "|">>
    /\ Len(parsedText.pipeline) = 1

\* C17: every Stage of a Pipeline returned by Parse has a non-empty Section.
C17_SectionsNonEmpty ==
    Parsed =>
        \A p \in 1..Len(parsedText.pipeline) :
            parsedText.pipeline[p].Section # <<>>

\* C18: every Command of a Pipeline returned by Parse has a token, and the
\* executor's dispatch on its first token does not panic.
C18_CommandsNonEmpty ==
    /\ Parsed =>
           \A p \in 1..Len(parsedText.pipeline) :
               \A c \in 1..Len(parsedText.pipeline[p].Section) :
                   parsedText.pipeline[p].Section[c] # <<>>
    /\ phase # "panic"

\* C19: no Pipe of a Pipeline returned by Parse has NextAnd and NextOr both
\* true.
C19_OneEdgeCondition ==
    Parsed =>
        \A p \in 1..Len(parsedText.pipeline) :
            ~(parsedText.pipeline[p].NextAnd /\ parsedText.pipeline[p].NextOr)

\* A line with && and then || was parsed: the first Pipe has NextAnd alone,
\* the second NextOr alone.
C19_Witness ==
    /\ Parsed
    /\ text = <<"a", "&", "&", "a", "|", "|">>
    /\ Len(parsedText.pipeline) = 2
    /\ parsedText.pipeline[1].NextAnd /\ ~parsedText.pipeline[1].NextOr
    /\ parsedText.pipeline[2].NextOr /\ ~parsedText.pipeline[2].NextAnd

\* C21: when Parse fails on a line, Run's call of sysmon finds that no stage
\* of the line was run and no command of it started, and the loop goes on to
\* read the next line.
C21_ParseErrorAbortsLineOnly ==
    [][(pc = "sysmon" /\ lineErr = "parse") =>
           (trace = <<>> /\ wiring = <<>> /\ pc' = "read")]_vars

\* The session is over: Run has returned or panicked, and the deferred
\* shell.exit() has run.
Terminated == pc \in {"done", "panic"}

\* C22: when os.Pipe fails in a stage, the error that reaches Run ends the
\* session: the loop does not go back to read another line, and the stage is
\* not entered again.
C22_PipeFailureFatal ==
    [][(pc = "sysmon" /\ lineErr = "pipe") => Terminated']_vars

\* The processes of shell.externals that were spawned by the current line.
OwnProcesses == {x \in 1..Len(externals) : externals[x].line = lineNo}

\* C23: when runPipe has returned because a builtin or a spawn failed, every
\* process the stage had started has been waited on and is no longer in
\* shell.externals.
C23_FailedStageReaped ==
    (pc = "sysmon" /\ lineErr \in {"builtin", "spawn"}) => OwnProcesses = {}

\* runPipe has just returned (code, nil) for the stage before the current
\* one, all of whose commands were launched.
JustCompleted ==
    /\ pc = "runPipeline"
    /\ trace # <<>>
    /\ trace[Len(trace)].ran
    /\ trace[Len(trace)].err = "nil"

\* C24: when runPipe returns from a stage all of whose launches succeeded,
\* every external process started for the stage has been waited on and
\* shell.externals is empty.
C24_ReturnsAfterWait ==
    JustCompleted =>
        /\ externals = <<>>
        /\ \A k \in 1..Len(Started(Len(trace))) :
               Started(Len(trace))[k].external =>
                   \E x \in 1..Len(waited) :
                       waited[x].proc = Process(lineNo, Len(trace), k)

\* `prog | prog`: runPipe has returned after waiting on both processes.
C24_Witness ==
    /\ JustCompleted
    /\ Len(Started(Len(trace))) = 2
    /\ \A k \in 1..2 : Started(Len(trace))[k].external
    /\ Len(waited) >= 2

\* C25: while a stage is in flight shell.externals holds processes of that
\* stage only, and whenever Run is reading a line it is empty.
C25_ActiveSetOfStageInFlight ==
    /\ pc = "read" => externals = <<>>
    /\ pc \in {"runPipe", "sync"} =>
           \A x \in 1..Len(externals) :
               externals[x].line = lineNo /\ externals[x].stage = stage

\* C26 (as stated): every read and every write of shell.externals, by the
\* executor thread or by interruptHandler, is made by the holder of shell.mu.
C26_EveryAccessLocked ==
    \A a \in accesses : a.holder = a.by

\* C26 (amended): every write of shell.externals is made by the executor
\* thread holding shell.mu, and every read of it by interruptHandler is made
\* holding shell.mu; the executor thread, the only writer, also reads it
\* without the mutex.
C26_WritesAndRelayReadsLocked ==
    \A a \in accesses :
        /\ a.op = "write" => (a.by = "main" /\ a.holder = "main")
        /\ a.by = "relay" => (a.op = "read" /\ a.holder = "relay")

\* The executor has appended a process and tested the list, and
\* interruptHandler has walked it.
C26_Witness ==
    /\ Access("main", "write", "main") \in accesses
    /\ Access("main", "read", "free") \in accesses
    /\ Access("relay", "read", "relay") \in accesses

\* C27: interruptHandler sends the interrupt it has taken from shell.sigCh
\* only to processes that were in shell.externals when that interrupt
\* arrived, never to one spawned since.
C27_ForwardedToRunningOnly ==
    [][(relayPc = "lock" /\ relayPc' = "select") =>
           Range(externals) \subseteq running.held.procs]_vars

\* The step is interruptHandler's walk over shell.externals.
Forwarding == relayPc = "lock" /\ relayPc' = "select"

\* C28: an interrupt that occurs while Run is reading a line starts no stage
\* (Run stays at the prompt with nothing run), and when interruptHandler
\* handles it no process is sent a signal.
C28_InterruptAtPromptAbandons ==
    [][/\ (pc = "read" /\ interrupts' > interrupts) =>
              (pc' = "read" /\ trace' = trace /\ wiring' = wiring)
       /\ (Forwarding /\ running.held.reading) => externals = <<>>]_vars

\* C29: interruptHandler, running since boot, returns only once exit has
\* closed shell.stopCh, is not started again, and does return once
\* shell.stopCh is closed; shell.stopCh is closed however Run is left, by a
\* return or by a panic.
C29_RelayStopsAtTeardownOnly ==
    /\ [](relayPc = "stopped" => stopCh = "closed")
    /\ [](Terminated => stopCh = "closed")
    /\ [][relayPc = "stopped" => relayPc' = "stopped"]_vars
    /\ (stopCh = "closed" ~> relayPc = "stopped")

\* Run has panicked and interruptHandler, which had sent an interrupt on,
\* has returned.
C29_Witness ==
    /\ pc = "panic"
    /\ relayPc = "stopped"
    /\ interrupts = MaxInterrupts
    /\ Access("relay", "read", "relay") \in accesses

\* The started commands of the line are in textual order: stage by stage,
\* and within a stage from the first command on, one after the other.
LaunchedInOrder ==
    /\ \A x, y \in 1..Len(wiring) :
           x < y => \/ wiring[x].stage < wiring[y].stage
                    \/ /\ wiring[x].stage = wiring[y].stage
                       /\ wiring[x].cmd < wiring[y].cmd
    /\ \A j \in 1..Len(pipeline) :
           \A k \in 1..Len(Started(j)) : Started(j)[k].cmd = k

\* C30: the commands of a line are started in textual order, stage after
\* stage and left to right within a stage, and a command of a stage is
\* started only once runPipe has returned for every stage before it: the only
\* stage with commands started for which runPipe has not returned is the one
\* runPipe is running.
C30_StagesInOrderNoOverlap ==
    /\ LaunchedInOrder
    /\ \A x \in 1..Len(wiring) :
           IF wiring[x].stage <= Len(trace)
           THEN trace[wiring[x].stage].ran
           ELSE /\ wiring[x].stage = Len(trace) + 1
                /\ wiring[x].stage = stage
                /\ pc \in {"runPipe", "sync", "blocked"}

\* `prog | prog && prog`: the second stage's command has been started after
\* runPipe returned for the two commands of the first.
C30_Witness ==
    /\ Len(wiring) = 3
    /\ wiring[1].stage = 1 /\ wiring[2].stage = 1 /\ wiring[3].stage = 2
    /\ wiring[1].external /\ wiring[2].external /\ wiring[3].external
    /\ Len(trace) = 1

\* Descriptor d is an end of a pipe that no other started command of the line
\* has for standard input or output.
FreshPipeEnd(d, kind, x) ==
    /\ d \in 1..Len(files)
    /\ files[d].kind = kind
    /\ \A y \in 1..Len(wiring) :
           y # x => wiring[y].stdin # d /\ wiring[y].stdout # d

\* The place in wiring of the k-th started command of stage j.
PlaceOf(j, k) == CHOOSE x \in 1..Len(wiring) : wiring[x].stage = j /\ wiring[x].cmd = k

\* C31: of two external commands started one after the other in a stage, the
\* first has for standard output the write end of a pipe of its own and the
\* second has for standard input the read end of that pipe; the first command
\* of a stage, if external, reads the stage's input file or else os.Stdin, and
\* the last, if external, writes the stage's output file or else os.Stdout.
C31_AdjacentCommandsPiped ==
    \A j \in 1..Len(pipeline) :
        \A k \in 1..Len(Started(j)) :
            LET this == Started(j)[k]
                pipe == pipeline[j]
            IN  this.external =>
                    /\ k = 1 =>
                           this.stdin = IF pipe.Input # Nil THEN pipe.Input ELSE Stdin
                    /\ k = Len(pipe.Section) =>
                           this.stdout = IF pipe.Output # Nil THEN pipe.Output ELSE Stdout
                    /\ (k < Len(Started(j)) /\ Started(j)[k + 1].external) =>
                           /\ FreshPipeEnd(this.stdout, "write end", PlaceOf(j, k))
                           /\ FreshPipeEnd(Started(j)[k + 1].stdin, "read end",
                                           PlaceOf(j, k + 1))
                           /\ this.stdout = Started(j)[k + 1].stdin + 1
                           /\ files[this.stdout].stage = j

\* `prog < in | prog`: both commands of the stage have been started.
C31_Witness ==
    /\ pipeline # <<>>
    /\ pipeline[1].Input # Nil
    /\ Len(Started(1)) = 2
    /\ Started(1)[1].external /\ Started(1)[2].external
    /\ Started(1)[1].stdin = pipeline[1].Input
    /\ Started(1)[2].stdout = Stdout

\* The pipe ends of the stage runPipe is running that the shell has open.
OpenPipeEnds ==
    {f \in PipeEnds(stage, "read end") \cup PipeEnds(stage, "write end") :
         files[f].open}

\* The part of C32 about the descriptors: when runPipe starts waiting, the
\* shell has no end of a pipe of the stage open.
C32_NoPipeEndHeldAtWait == pc = "sync" => OpenPipeEnds = {}

\* C32: when runPipe starts waiting, the shell has no end of a pipe of the
\* stage open, and the wait is for processes of the stage alone, so that it
\* ends once the commands of the stage, each leaving at end-of-input, have
\* left.
C32_WaitEndsWithStage ==
    pc = "sync" =>
        /\ OpenPipeEnds = {}
        /\ \A x \in 1..Len(externals) :
               externals[x].line = lineNo /\ externals[x].stage = stage

\* The operator tokens of a line.
Operators == {<<"&", "&">>, <<"|", "|">>}

\* What splitByConditionals makes of the line Parse was given.
Conditionals == splitByConditionals(Replace(expandEnv(text)))

\* The places, in order, of the segments of free text among the conditionals.
SegmentPlaces(conditionals) ==
    SelectSeq([i \in 1..Len(conditionals) |-> i],
              LAMBDA i : conditionals[i] \notin Operators \cup {<<>>})

\* The conditional at place i is followed at once by the operator.
FollowedBy(conditionals, i, operator) ==
    i + 1 <= Len(conditionals) /\ conditionals[i + 1] = operator

\* C33: the Pipeline Parse returns has one Pipe per segment of free text, in
\* the order of the segments, each with the commands of its segment, with
\* NextAnd alone when && follows the segment at once, NextOr alone when ||
\* does, and neither when no operator follows.
C33_EdgeFromFollowingOperator ==
    Parsed =>
        LET places == SegmentPlaces(Conditionals)
        IN  /\ Len(parsedText.pipeline) = Len(places)
            /\ \A p \in 1..Len(places) :
                   LET pipe == parsedText.pipeline[p]
                   IN  /\ pipe.Section =
                              buildSection(Conditionals[places[p]], <<>>, disk).section
                       /\ pipe.NextAnd = FollowedBy(Conditionals, places[p], <<"&", "&">>)
                       /\ pipe.NextOr = FollowedBy(Conditionals, places[p], <<"|", "|">>)

\* `a||a` was parsed: the first Pipe has NextOr alone and the second, which
\* no operator follows, has neither flag.
C33_Witness ==
    /\ Parsed
    /\ text = <<"a", "|", "|", "a">>
    /\ Len(parsedText.pipeline) = 2
    /\ parsedText.pipeline[1].NextOr /\ ~parsedText.pipeline[1].NextAnd
    /\ ~parsedText.pipeline[2].NextOr /\ ~parsedText.pipeline[2].NextAnd

\* The line made of the segments of free text at places p, p + 1, ... of the
\* conditionals, each but the last followed by the operator that follows it
\* in the conditionals: the other operators are left out.
RECURSIVE CleanedFrom(_, _, _)
CleanedFrom(conditionals, places, p) ==
    IF p > Len(places) THEN <<>>
    ELSE IF p = Len(places) THEN conditionals[places[p]]
    ELSE conditionals[places[p]] \o <<" ">> \o conditionals[places[p] + 1]
             \o <<" ">> \o CleanedFrom(conditionals, places, p + 1)

\* The line Parse was given with its superfluous operators removed.
Cleaned == CleanedFrom(Conditionals, SegmentPlaces(Conditionals), 1)

\* The operators among the conditionals of the line.
OperatorPlaces == {i \in 1..Len(Conditionals) : Conditionals[i] \in Operators}

\* The line has an operator that no text follows before the next operator or
\* the end (consecutive or trailing), or that no text precedes (leading).
Superfluous ==
    Cardinality(OperatorPlaces) >=
        IF SegmentPlaces(Conditionals) = <<>> THEN 1
        ELSE Len(SegmentPlaces(Conditionals))

\* The Sections of a Pipeline, in order.
Sections(pl) == [p \in 1..Len(pl) |-> pl[p].Section]

\* Parse has returned for the line, with a Pipeline or with an error.
Returns == phase \in {"parsed", "failed", "ran", "panic"}

C35_RedirectionTokensRemoved ==
    Parsed =>
        \A p \in 1..Len(parsedText.pipeline) :
            LET section == parsedText.pipeline[p].Section
            IN  section # <<>> =>
                    /\ <<"<">> \notin Range(section[1])
                    /\ <<">">> \notin Range(section[Len(section)])
                    /\ <<">", ">">> \notin Range(section[Len(section)])

\* C36: when Parse has failed on a line, none of the redirection files it
\* opened for the line is open any more: the failure adds nothing to the
\* descriptors the shell has open.
C36_ParseFailureClosesFiles ==
    (pc = "sysmon" /\ lineErr = "parse") => OpenFiles = {}

\* C37: the exit code runPipe reports after its wait comes from a command of
\* the stage: it is 0, or the code of a process of this stage that did not
\* succeed, never one that only a process of an earlier stage or line has.
C37_ExitCodeFromOwnStage ==
    JustCompleted =>
        LET own == OwnStatuses(waited, Len(trace))
        IN  \/ trace[Len(trace)].code = 0
            \/ \E k \in 1..Len(own) :
                   ~Success(own[k]) /\ ExitCode(own[k]) = trace[Len(trace)].code

\* The processes external.Wait has reaped in the last wait.
Reaped == {waited[x].proc : x \in 1..Len(waited)}

\* Process p was started by runPipe for the line being run, or is one an
\* earlier line has left.
WasStarted(p) ==
    \/ p = Earlier
    \/ \E x \in 1..Len(wiring) :
           /\ wiring[x].external
           /\ p = Process(lineNo, wiring[x].stage, wiring[x].cmd)

\* C38: whenever shell.mu is not held by sync, so that interruptHandler can
\* walk shell.externals, the list holds only processes that were started and
\* have not been waited on (or nothing): the wait and the reset of the list
\* are one critical section.
C38_RelaySeesUnreapedOnly ==
    mu # "main" =>
        \A x \in 1..Len(externals) :
            externals[x] \notin Reaped /\ WasStarted(externals[x])

\* An interrupt arrived during the wait of a stage; interruptHandler got the
\* mutex after sync had reset the list, and signalled nobody.
C38_Witness ==
    /\ pc = "runPipeline"
    /\ arrived
    /\ waited # <<>>
    /\ externals = <<>>
    /\ signalled = {}
    /\ relayPc = "select" /\ sigCh = 0
    /\ Access("relay", "read", "relay") \in accesses

\* The files of the redirections of the stages of the parsed line, as
\* entries of the table of the files Parse has opened.
InputsOf(pl) == {pl[i].Input : i \in {j \in 1..Len(pl) : pl[j].Input # Nil}}
OutputsOf(pl) == {pl[i].Output : i \in {j \in 1..Len(pl) : pl[j].Output # Nil}}

\* The stages runPipeline passes over when every command succeeds.
SkippedStages == {i \in 1..Len(parsedText.pipeline) :
                      ~shouldRun(parsedText.pipeline, i, 0)}

\* The names of the files the stages that run print to.
WrittenNames ==
    {parsedText.opened[parsedText.pipeline[i].Output].name :
        i \in {j \in 1..Len(parsedText.pipeline) :
                  /\ j \notin SkippedStages
                  /\ parsedText.pipeline[j].Section # <<>>
                  /\ parsedText.pipeline[j].Output # Nil}}

\* C39: when Parse has returned and no stage has run yet, the file of every
\* redirection of every stage is open and exists, and the target of every >
\* is empty; the file of a < existed before the line was read or was created
\* by a redirection Parse met earlier in the line, never by a stage; and once
\* the line has run, the > target of a stage that was passed over exists and
\* is empty unless a stage that ran has printed to it.
C39_FilesOpenedAtParseTime ==
    LET pl == parsedText.pipeline
        opened == parsedText.opened
    IN  /\ phase = "parsed" =>
               /\ InputsOf(pl) \cup OutputsOf(pl) \subseteq 1..Len(opened)
               /\ \A f \in InputsOf(pl) \cup OutputsOf(pl) :
                      /\ opened[f].name \in DOMAIN disk
                      /\ opened[f].direction = <<">">> => disk[opened[f].name] = <<>>
        /\ Parsed =>
               \A f \in InputsOf(pl) :
                   \/ opened[f].name \in DOMAIN before
                   \/ \E g \in 1..(f - 1) :
                          /\ opened[g].name = opened[f].name
                          /\ opened[g].direction # <<"<">>
        /\ phase = "ran" =>
               \A i \in SkippedStages :
                   pl[i].Output # Nil =>
                       LET o == opened[pl[i].Output]
                       IN  /\ o.name \in DOMAIN disk
                           /\ (o.direction = <<">">> /\ o.name \notin WrittenNames)
                                  => disk[o.name] = <<>>

\* The line has run, its second stage was passed over, and the file that
\* stage's > names, which held something before the line, is empty.
C39_Witness ==
    /\ phase = "ran"
    /\ \E i \in SkippedStages :
           /\ parsedText.pipeline[i].Output # Nil
           /\ LET o == parsedText.opened[parsedText.pipeline[i].Output]
              IN  /\ o.direction = <<">">>
                  /\ o.name \in DOMAIN before
                  /\ before[o.name] # <<>>
                  /\ disk[o.name] = <<>>

====
